---- MODULE Spec2Model ----
(***************************************************************************)
(* A model of bbot's nuclei module (src/bbot/modules/deadly/nuclei.py):    *)
(* the NucleiBudget template compaction (find_budget_paths,                *)
(* find_collapsable_templates), the module's setup, the construction of    *)
(* the scan invocation in execute_nuclei, the parsing of the scanner's     *)
(* output lines, and the correlation of results with the batch's events.   *)
(*                                                                         *)
(* Python values are modelled as follows.                                  *)
(*   - a dict whose keys the code reads with .get is a TLA+ function whose *)
(*     DOMAIN is the set of keys present; d.get(k) is Get(d, k), an        *)
(*     optional value: None, or Some(v);                                   *)
(*   - an insertion-ordered dict the code counts into (path_frequency,     *)
(*     severity_dict) is a sequence of entries [k, n] in insertion order;  *)
(*   - a call that may raise returns [exc |-> name of the exception, or    *)
(*     NoExc, val |-> the value], and the callers propagate exc;           *)
(*   - a string the code searches in (event data, matched host) is a       *)
(*     sequence of characters; any other string is a TLA+ string.          *)
(***************************************************************************)
EXTENDS Integers, Sequences, FiniteSets, TLC

\* Bounds of the model.
MaxSize == 5
MaxPathsSize == 7
MaxBudget == 2
MaxBatch == 2
MaxLines == 2

VARIABLES
    templates_dir,          \* the *.yaml files under nuclei-templates, in rglob order
    config,                 \* self.config: the module's options
    tags,                   \* self.tags
    severity,               \* self.severity
    setup_state,            \* "new", or how setup() ended: "ok", "failed", "error"
    nucleibudget,           \* the NucleiBudget object: the attributes assigned so far
    budget_templates_file,  \* self.budget_templates_file
    events,                 \* the batch handle_batch was called with
    command,                \* the scan invocation execute_nuclei built
    stream,                 \* the scanner's output lines read so far
    results,                \* the tuples execute_nuclei yielded so far
    findings,               \* the VULNERABILITY events emitted so far
    batch_state             \* "idle", "streaming", "done", "raised"

vars == <<templates_dir, config, tags, severity, setup_state, nucleibudget,
          budget_templates_file, events, command, stream, results, findings,
          batch_state>>

budgetVars == <<nucleibudget, budget_templates_file>>
batchVars == <<events, command, stream, results, findings, batch_state>>

----------------------------------------------------------------------------
\* Python values

None == [none |-> TRUE]
Some(v) == [none |-> FALSE, v |-> v]
Get(d, k) == IF k \in DOMAIN d THEN Some(d[k]) ELSE None
GetOr(d, k, default) == IF k \in DOMAIN d THEN d[k] ELSE default

NoExc == "none"
Return(v) == [exc |-> NoExc, val |-> v]
Raise(e) == [exc |-> e, val |-> <<>>]

EmptyDict == <<>>

\* The keys of an insertion-ordered dict, in insertion order.
Keys(d) == [i \in 1..Len(d) |-> d[i].k]

KeySet(d) == {d[i].k : i \in 1..Len(d)}

\* if key in d.keys(): d[key] += 1  else: d[key] = 1
Incr(d, key) ==
    IF key \in KeySet(d)
    THEN [i \in 1..Len(d) |-> IF d[i].k = key THEN [k |-> key, n |-> d[i].n + 1] ELSE d[i]]
    ELSE Append(d, [k |-> key, n |-> 1])

RECURSIVE SumValues(_)
SumValues(d) == IF d = <<>> THEN 0 ELSE Head(d).n + SumValues(Tail(d))

\* set(s) for a list s
ToSet(s) == {s[i] : i \in 1..Len(s)}

----------------------------------------------------------------------------
\* The template corpus

Paths == {"/a", "/b", "/c"}
Methods == {"GET", "POST"}
Severities == {"critical", "high", "medium", "low", "info", "unknown"}
RequestFlags == {"headers", "max-redirects", "redirects", "cookie-reuse"}

\* A file yaml.safe_load raises YAMLError on, and a file it loads as doc.
Malformed == [ok |-> FALSE]
Loaded(doc) == [ok |-> TRUE, doc |-> doc]

\* with open(yamlfile) ...: yaml.safe_load, and on YAMLError self.debug(...),
\* which NucleiBudget does not define: the handler raises AttributeError.
parse_yaml(yf) ==
    IF templates_dir[yf].ok THEN Return(templates_dir[yf].doc) ELSE Raise("AttributeError")

IsRaw(r) == GetOr(r, "raw", FALSE)

\* The generator's values: r.get(attr) of every request without a raw block.
get_yaml_request_attr(yf, attr) ==
    LET p == parse_yaml(yf) IN
    IF p.exc # NoExc THEN p
    ELSE LET requests == GetOr(p.val, "requests", <<>>)
             nonraw == SelectSeq(requests, LAMBDA r : ~IsRaw(r))
         IN Return([i \in 1..Len(nonraw) |-> Get(nonraw[i], attr)])

\* p.get("info", []) and info.get(attr): a list has no .get
get_yaml_info_attr(yf, attr) ==
    LET p == parse_yaml(yf) IN
    IF p.exc # NoExc THEN p
    ELSE IF "info" \notin DOMAIN p.val THEN Raise("AttributeError")
    ELSE Return(Get(p.val.info, attr))

----------------------------------------------------------------------------
\* NucleiBudget.find_budget_paths

\* for path in paths: count it
RECURSIVE CountPaths(_, _)
CountPaths(paths, path_frequency) ==
    IF paths = <<>> THEN path_frequency
    ELSE CountPaths(Tail(paths), Incr(path_frequency, Head(paths)))

\* for paths in self.get_yaml_request_attr(yf, "path"): iterating None raises
RECURSIVE CountRequests(_, _)
CountRequests(pathsList, path_frequency) ==
    IF pathsList = <<>> THEN Return(path_frequency)
    ELSE IF Head(pathsList) = None THEN Raise("TypeError")
    ELSE CountRequests(Tail(pathsList), CountPaths(Head(pathsList).v, path_frequency))

\* for yf in self.yaml_list, from file yf on
RECURSIVE CountFiles(_, _)
CountFiles(yf, path_frequency) ==
    IF yf > Len(templates_dir) THEN Return(path_frequency)
    ELSE LET g == get_yaml_request_attr(yf, "path") IN
         IF g.exc # NoExc THEN g
         ELSE LET c == CountRequests(g.val, path_frequency) IN
              IF c.exc # NoExc THEN c ELSE CountFiles(yf + 1, c.val)

\* InsertByCount with an unstable order: e goes before the items of equal count.
RECURSIVE InsertByCountUnstable(_, _)
InsertByCountUnstable(placed, e) ==
    IF placed = <<>> THEN <<e>>
    ELSE IF Head(placed).n > e.n
         THEN <<Head(placed)>> \o InsertByCountUnstable(Tail(placed), e)
    ELSE <<e>> \o placed

\* Where sorted(..., reverse=True) puts item e among the items already placed:
\* after every item whose count is at least e's (the sort is stable).
RECURSIVE InsertByCount(_, _)
InsertByCount(placed, e) ==
    IF placed = <<>> THEN <<e>>
    ELSE IF Head(placed).n >= e.n THEN <<Head(placed)>> \o InsertByCount(Tail(placed), e)
    ELSE <<e>> \o placed

\* sorted(path_frequency.items(), key=lambda item: item[1], reverse=True)
RECURSIVE SortedByCount(_)
SortedByCount(items) ==
    IF items = <<>> THEN <<>>
    ELSE InsertByCount(SortedByCount(SubSeq(items, 1, Len(items) - 1)), items[Len(items)])

\* islice(iterable, n)
islice(s, n) == SubSeq(s, 1, IF n < Len(s) THEN n ELSE Len(s))

find_budget_paths(budget) ==
    LET c == CountFiles(1, EmptyDict) IN
    IF c.exc # NoExc THEN c
    ELSE Return(Keys(islice(SortedByCount(c.val), budget)))

----------------------------------------------------------------------------
\* NucleiBudget.find_collapsable_templates

\* "if header:" and the like: the attribute is there and truthy
Truthy(o) == o # None /\ o.v

\* The five loops over the template's requests without a raw block; each sets
\* valid = False on a hit.
RequestsValid(yf) ==
    /\ \A i \in DOMAIN get_yaml_request_attr(yf, "headers").val :
          ~Truthy(get_yaml_request_attr(yf, "headers").val[i])
    /\ \A i \in DOMAIN get_yaml_request_attr(yf, "method").val :
          get_yaml_request_attr(yf, "method").val[i] = Some("GET")
    /\ \A i \in DOMAIN get_yaml_request_attr(yf, "max-redirects").val :
          ~Truthy(get_yaml_request_attr(yf, "max-redirects").val[i])
    /\ \A i \in DOMAIN get_yaml_request_attr(yf, "redirects").val :
          ~Truthy(get_yaml_request_attr(yf, "redirects").val[i])
    /\ \A i \in DOMAIN get_yaml_request_attr(yf, "cookie-reuse").val :
          ~Truthy(get_yaml_request_attr(yf, "cookie-reuse").val[i])

\* set(paths).issubset(self.budget_paths)
issubset(paths, budget_paths) == ToSet(paths) \subseteq ToSet(budget_paths)

\* for paths in self.get_yaml_request_attr(yf, "path"): ... with the loop's state
\* st = [valid, collapsable_templates, severity_dict]
RECURSIVE CollapseRequests(_, _, _, _)
CollapseRequests(yf, budget_paths, pathsList, st) ==
    IF pathsList = <<>> THEN Return(st)
    ELSE IF Head(pathsList) = None THEN Raise("TypeError")
    ELSE IF ~issubset(Head(pathsList).v, budget_paths)
         THEN CollapseRequests(yf, budget_paths, Tail(pathsList), st)
    ELSE LET valid == st.valid /\ RequestsValid(yf) IN
         IF ~valid
         THEN CollapseRequests(yf, budget_paths, Tail(pathsList), [st EXCEPT !.valid = FALSE])
         ELSE LET sev == get_yaml_info_attr(yf, "severity") IN
              IF sev.exc # NoExc THEN sev
              ELSE CollapseRequests(yf, budget_paths, Tail(pathsList),
                      [valid |-> TRUE,
                       collapsable_templates |-> Append(st.collapsable_templates, yf),
                       severity_dict |-> Incr(st.severity_dict, sev.val)])

\* for yf in self.yaml_list, from file yf on
RECURSIVE CollapseFiles(_, _, _, _)
CollapseFiles(yf, budget_paths, collapsable_templates, severity_dict) ==
    IF yf > Len(templates_dir)
    THEN Return([collapsable_templates |-> collapsable_templates,
                 severity_dict |-> severity_dict])
    ELSE LET g == get_yaml_request_attr(yf, "path") IN
         IF g.exc # NoExc THEN g
         ELSE LET c == CollapseRequests(yf, budget_paths, g.val,
                          [valid |-> TRUE,
                           collapsable_templates |-> collapsable_templates,
                           severity_dict |-> severity_dict])
              IN IF c.exc # NoExc THEN c
                 ELSE CollapseFiles(yf + 1, budget_paths, c.val.collapsable_templates,
                                    c.val.severity_dict)

find_collapsable_templates(budget_paths) == CollapseFiles(1, budget_paths, <<>>, EmptyDict)

\* list(Path(self.templates_dir).rglob("*.yaml")): the files, named by their place
get_yaml_list == [i \in 1..Len(templates_dir) |-> i]

\* NucleiBudget.__init__: the object's attributes as far as they were assigned,
\* and the exception that ended the constructor, if any.
NucleiBudget(budget) ==
    LET bp == find_budget_paths(budget)
        new == [exc |-> NoExc, yaml_list |-> get_yaml_list, budget_paths |-> None,
                collapsable_templates |-> None, severity_stats |-> None]
    IN IF bp.exc # NoExc THEN [new EXCEPT !.exc = bp.exc]
       ELSE LET ct == find_collapsable_templates(bp.val) IN
            IF ct.exc # NoExc
            THEN [new EXCEPT !.exc = ct.exc, !.budget_paths = Some(bp.val)]
            ELSE [new EXCEPT !.budget_paths = Some(bp.val),
                             !.collapsable_templates = Some(ct.val.collapsable_templates),
                             !.severity_stats = Some(ct.val.severity_dict)]

----------------------------------------------------------------------------
\* nuclei.setup

Modes == {"technology", "severe", "manual", "budget"}

\* SetupTags clearing the tags in technology mode alone
SetupTagsTechnologyOnly(mode, configured) ==
    IF mode = "technology" THEN "" ELSE configured

\* self.tags after setup: technology and severe mode clear it
SetupTags(mode, configured) ==
    IF mode \in {"technology", "severe"} THEN "" ELSE configured

\* self.severity after setup: severe mode overrides it
SetupSeverity(mode, configured) ==
    IF mode = "severe" THEN "critical,high" ELSE configured

\* self.helpers.tempfile(lines, pipe=False): a file holding the lines, and its name
tempfile(lines) == [name |-> "tempfile", content |-> lines]

\* self.nucleibudget.severity_stats['critical'] ... ['unknown'] of the last log line
StatsLogged(severity_stats) == \A s \in Severities : Some(s) \in KeySet(severity_stats)

Unset == "unset"

Setup ==
    /\ setup_state = "new"
    /\ IF config.mode \notin Modes
       THEN /\ tags' = config.tags
            /\ severity' = config.severity
            /\ setup_state' = "failed"
            /\ UNCHANGED budgetVars
       ELSE /\ tags' = SetupTags(config.mode, config.tags)
            /\ severity' = SetupSeverity(config.mode, config.severity)
            /\ IF config.mode # "budget"
               THEN setup_state' = "ok" /\ UNCHANGED budgetVars
               ELSE LET nb == NucleiBudget(config.budget) IN
                    /\ nucleibudget' = nb
                    /\ IF nb.exc # NoExc
                       THEN setup_state' = "error" /\ UNCHANGED budget_templates_file
                       ELSE /\ budget_templates_file' = Some(tempfile(nb.collapsable_templates.v))
                            /\ setup_state' = IF StatsLogged(nb.severity_stats.v)
                                              THEN "ok" ELSE "error"
    /\ UNCHANGED <<templates_dir, config, batchVars>>

----------------------------------------------------------------------------
\* The template directory before setup runs: files are added to it, requests to
\* its last file, paths and attributes to the last request.

LoadedDocs == {EmptyDict, [info |-> EmptyDict],
               [info |-> [severity |-> "high"]], [info |-> [severity |-> "info"]]}
NewFiles == {Malformed} \cup {Loaded(d) : d \in LoadedDocs}
NewRequests == {EmptyDict, [raw |-> TRUE]} \cup {[method |-> m] : m \in Methods}

\* The files and requests that differ only in what find_budget_paths reads: the
\* raw block and the paths.
PlainFiles == {Loaded([info |-> [severity |-> "high"]])}
PlainRequests == {[raw |-> TRUE], [method |-> "GET"]}

RequestSize(r) ==
    1 + (IF "path" \in DOMAIN r THEN Len(r.path) ELSE 0)
      + Cardinality(DOMAIN r \cap RequestFlags)

RECURSIVE RequestsSize(_)
RequestsSize(rs) == IF rs = <<>> THEN 0 ELSE RequestSize(Head(rs)) + RequestsSize(Tail(rs))

RECURSIVE DirSize(_)
DirSize(dir) ==
    IF dir = <<>> THEN 0
    ELSE 1 + (IF Head(dir).ok THEN RequestsSize(GetOr(Head(dir).doc, "requests", <<>>)) ELSE 0)
           + DirSize(Tail(dir))

\* The requests of the last file of the directory
LastRequests == GetOr(templates_dir[Len(templates_dir)].doc, "requests", <<>>)

\* The directory with its last file's requests replaced by rs
WithRequests(rs) ==
    [templates_dir EXCEPT ![Len(templates_dir)] =
        Loaded([k \in DOMAIN @.doc \cup {"requests"} |->
                   IF k = "requests" THEN rs ELSE @.doc[k]])]

\* The directory with r in the place of the last request of its last file
WithLastRequest(r) == WithRequests([LastRequests EXCEPT ![Len(LastRequests)] = r])

CanGrow(max) == setup_state = "new" /\ DirSize(templates_dir) < max

CanGrowRequest(max) ==
    /\ CanGrow(max)
    /\ templates_dir # <<>>
    /\ templates_dir[Len(templates_dir)].ok
    /\ LastRequests # <<>>
    /\ ~IsRaw(LastRequests[Len(LastRequests)])

AddYaml(files, max) ==
    /\ CanGrow(max)
    /\ \E f \in files : templates_dir' = Append(templates_dir, f)
    /\ UNCHANGED <<config, tags, severity, setup_state, budgetVars, batchVars>>

AddRequest(requests, max) ==
    /\ CanGrow(max)
    /\ templates_dir # <<>>
    /\ templates_dir[Len(templates_dir)].ok
    /\ \E r \in requests : templates_dir' = WithRequests(Append(LastRequests, r))
    /\ UNCHANGED <<config, tags, severity, setup_state, budgetVars, batchVars>>

AddPath(max) ==
    /\ CanGrowRequest(max)
    /\ \E p \in Paths :
          LET r == LastRequests[Len(LastRequests)] IN
          templates_dir' = WithLastRequest(
              [k \in DOMAIN r \cup {"path"} |->
                  IF k = "path" THEN Append(GetOr(r, "path", <<>>), p) ELSE r[k]])
    /\ UNCHANGED <<config, tags, severity, setup_state, budgetVars, batchVars>>

SetFlag(max) ==
    /\ CanGrowRequest(max)
    /\ \E f \in RequestFlags \ DOMAIN LastRequests[Len(LastRequests)] :
          LET r == LastRequests[Len(LastRequests)] IN
          templates_dir' = WithLastRequest(
              [k \in DOMAIN r \cup {f} |-> IF k = f THEN TRUE ELSE r[k]])
    /\ UNCHANGED <<config, tags, severity, setup_state, budgetVars, batchVars>>

\* The options of the module (options, lines 17-27) with the given mode, tags,
\* severity and budget; interactsh_* are the scan's settings.
Options(mode, tagsOpt, severityOpt, budget) ==
    [mode |-> mode, tags |-> tagsOpt, severity |-> severityOpt, budget |-> budget,
     templates |-> "", etags |-> "intrusive", ratelimit |-> "150", concurrency |-> "25",
     interactsh_server |-> "", interactsh_token |-> "", interactsh_disable |-> FALSE]

InitModule ==
    /\ tags = Unset
    /\ severity = Unset
    /\ setup_state = "new"
    /\ nucleibudget = None
    /\ budget_templates_file = None
    /\ events = <<>>
    /\ command = <<>>
    /\ stream = <<>>
    /\ results = <<>>
    /\ findings = <<>>
    /\ batch_state = "idle"

\* Budget mode over every template directory of at most MaxSize parts.
InitBudget ==
    /\ templates_dir = <<>>
    /\ \E b \in 1..MaxBudget : config = Options("budget", "", "", b)
    /\ InitModule

NextBudget ==
    \/ AddYaml(NewFiles, MaxSize)
    \/ AddRequest(NewRequests, MaxSize)
    \/ AddPath(MaxSize)
    \/ SetFlag(MaxSize)
    \/ Setup

SpecBudget == InitBudget /\ [][NextBudget]_vars

\* Budget mode over the directories of at most MaxPathsSize parts whose files
\* load and whose requests are GET requests or raw.
NextPaths ==
    \/ AddYaml(PlainFiles, MaxPathsSize)
    \/ AddRequest(PlainRequests, MaxPathsSize)
    \/ AddPath(MaxPathsSize)
    \/ Setup

SpecPaths == InitBudget /\ [][NextPaths]_vars

----------------------------------------------------------------------------
\* nuclei.execute_nuclei: the scan invocation

\* if option: command.append(f"-{cli_option}"); command.append(option)
CliOption(flag, option) == IF option # "" THEN <<flag, option>> ELSE <<>>

\* BudgetTemplateArgs without the template list file
NoBudgetTemplateArgs(mode, file) == <<>>

\* if mode == "budget": command.append("-t"); command.append(self.budget_templates_file)
BudgetTemplateArgs(mode, file) ==
    IF mode = "budget" THEN <<"-t", file.v.name>> ELSE <<>>

\* The command list of execute_nuclei. The scan's interactsh_server and
\* interactsh_token, when unset (None), are "" here: both are falsy. The rate
\* limit, which the code appends as the number it is, is written as its digits.
BuildCommand ==
    <<"nuclei", "-silent", "-json", "-update-directory", "nuclei-templates",
      "-rate-limit", config.ratelimit, "-concurrency", config.concurrency, "-duc">>
    \o CliOption("-severity", severity)
    \o CliOption("-templates", config.templates)
    \o CliOption("-iserver", config.interactsh_server)
    \o CliOption("-itoken", config.interactsh_token)
    \o CliOption("-etags", config.etags)
    \o CliOption("-tags", tags)
    \o (IF config.interactsh_disable THEN <<"-no-interactsh">> ELSE <<>>)
    \o (IF config.mode = "technology" THEN <<"-as">> ELSE <<>>)
    \o BudgetTemplateArgs(config.mode, budget_templates_file)

----------------------------------------------------------------------------
\* nuclei.execute_nuclei: the scanner's output lines

\* A line json.loads raises JSONDecodeError on; a line it loads as something
\* other than a dict (a number, null, a list); a line it loads as the dict j.
NotJson == [json |-> FALSE]
JsonOther == [json |-> TRUE, object |-> FALSE]
JsonObject(j) == [json |-> TRUE, object |-> TRUE, j |-> j]

\* The value of "info": a dict, or something else (null)
InfoObject(j) == [object |-> TRUE, j |-> j]
InfoOther == [object |-> FALSE]

\* The value of "severity": a string, or something else (null)
SevString(str) == [string |-> TRUE, s |-> str]
SevOther == [string |-> FALSE]

\* str.upper on the severities nuclei reports
upper(str) ==
    CASE str = "critical" -> "CRITICAL"
      [] str = "high" -> "HIGH"
      [] str = "medium" -> "MEDIUM"
      [] str = "low" -> "LOW"
      [] str = "info" -> "INFO"
      [] str = "unknown" -> "UNKNOWN"
      [] OTHER -> str

\* j.get("info", {}).get(key, default): a value that is no dict has no .get
InfoGet(j, key, default) ==
    LET info == GetOr(j, "info", InfoObject(EmptyDict)) IN
    IF ~info.object THEN Raise("AttributeError")
    ELSE Return(GetOr(info.j, key, default))

\* One round of "for line in self.helpers.run_live(...)": what the generator
\* yields for the line (None when it yields nothing), or the exception.
ExecuteLine(line) ==
    IF ~line.json THEN Return(None)
    ELSE IF ~line.object THEN Raise("AttributeError")
    ELSE LET j == line.j
             template == GetOr(j, "template-id", "")
             matcher == GetOr(j, "matcher-name", "")
             name == IF matcher # "" THEN Return(matcher) ELSE InfoGet(j, "name", "")
             sev == InfoGet(j, "severity", SevString(""))
             host == GetOr(j, "host", <<>>)
         IN IF name.exc # NoExc THEN name
            ELSE IF sev.exc # NoExc THEN sev
            ELSE IF ~sev.val.string THEN Raise("AttributeError")
            ELSE IF template # "" /\ name.val # "" /\ upper(sev.val.s) # "" /\ host # <<>>
                 THEN Return(Some([severity |-> upper(sev.val.s), template |-> template,
                                   host |-> host, name |-> name.val]))
                 ELSE Return(None)

----------------------------------------------------------------------------
\* nuclei.correlate_event and nuclei.handle_batch

\* s occurs in t
IsSubstring(s, t) == \E i \in 0..(Len(t) - Len(s)) : SubSeq(t, i + 1, i + Len(s)) = s

\* "host in event": the event's data contains the host as a substring
EventContains(event, host) == IsSubstring(host, event.data)

\* correlate_event returning the last event that contains the host
RECURSIVE CorrelateLast(_, _, _)
CorrelateLast(evs, host, i) ==
    IF i < 1 THEN None
    ELSE IF EventContains(evs[i], host) THEN Some(i)
    ELSE CorrelateLast(evs, host, i - 1)

\* for event in events, from the i-th on: the place of the event returned, or
\* None when the loop ends
RECURSIVE CorrelateFrom(_, _, _)
CorrelateFrom(evs, host, i) ==
    IF i > Len(evs) THEN None
    ELSE IF EventContains(evs[i], host) THEN Some(i)
    ELSE CorrelateFrom(evs, host, i + 1)

correlate_event_last(evs, host) == CorrelateLast(evs, host, Len(evs))

correlate_event(evs, host) == CorrelateFrom(evs, host, 1)

\* The body of handle_batch's loop for one result: the findings emitted so far
\* and after it
EmitFor(evs, result, emitted) ==
    LET source_event == correlate_event(evs, result.host) IN
    IF source_event = None THEN emitted
    ELSE Append(emitted, [severity |-> result.severity,
                          host |-> evs[source_event.v].host,
                          url |-> result.host,
                          template |-> result.template,
                          name |-> result.name,
                          source |-> source_event.v])

\* The events of a batch and the hosts nuclei reports: "b" occurs in the data
\* of two events, "a" in the data of one, "d" in none.
Events == {[data |-> <<"a", "b">>, host |-> <<"a">>],
           [data |-> <<"b", "c">>, host |-> <<"b">>],
           [data |-> <<"c">>, host |-> <<"c">>]}
ResultHosts == {<<"a">>, <<"b">>, <<"d">>}

Batches == UNION {[1..n -> Events] : n \in 1..MaxBatch}

\* A complete result record, and the lines the scanner may print: complete
\* records, records with one part missing or null, and lines that are no record.
FullRecord(host) ==
    [k \in {"template-id", "matcher-name", "info", "host"} |->
        CASE k = "template-id" -> "t1"
          [] k = "matcher-name" -> "m1"
          [] k = "info" -> InfoObject([name |-> "n1", severity |-> SevString("high")])
          [] OTHER -> host]
Without(j, key) == [k \in DOMAIN j \ {key} |-> j[k]]
WithInfo(j, info) == [k \in DOMAIN j \cup {"info"} |-> IF k = "info" THEN info ELSE j[k]]
Lines ==
    {NotJson, JsonOther}
    \cup {JsonObject(FullRecord(h)) : h \in ResultHosts}
    \cup {JsonObject(Without(FullRecord(<<"b">>), key)) :
             key \in {"template-id", "matcher-name", "info", "host"}}
    \cup {JsonObject(WithInfo(Without(FullRecord(<<"b">>), "matcher-name"), info)) :
             info \in {InfoObject([severity |-> SevString("high")]), InfoOther}}
    \cup {JsonObject(WithInfo(FullRecord(<<"b">>), info)) :
             info \in {InfoObject([name |-> "n1"]),
                       InfoObject([name |-> "n1", severity |-> SevOther]),
                       InfoOther}}

\* handle_batch up to the first line of the scanner: the batch, and the
\* invocation execute_nuclei builds for it
HandleBatch ==
    /\ setup_state = "ok"
    /\ batch_state \in {"idle", "done"}
    /\ \E evs \in Batches : events' = evs
    /\ command' = BuildCommand
    /\ stream' = <<>>
    /\ results' = <<>>
    /\ findings' = <<>>
    /\ batch_state' = "streaming"
    /\ UNCHANGED <<templates_dir, config, tags, severity, setup_state, budgetVars>>

\* One line of the scanner's output: execute_nuclei parses it, and handle_batch
\* correlates and emits what it yields. An exception ends handle_batch.
NextLine ==
    /\ batch_state = "streaming"
    /\ Len(stream) < MaxLines
    /\ \E line \in Lines :
          LET out == ExecuteLine(line) IN
          /\ stream' = Append(stream, line)
          /\ IF out.exc # NoExc
             THEN batch_state' = "raised" /\ UNCHANGED <<results, findings>>
             ELSE IF out.val = None
             THEN UNCHANGED <<results, findings, batch_state>>
             ELSE /\ results' = Append(results, out.val.v)
                  /\ findings' = EmitFor(events, out.val.v, findings)
                  /\ UNCHANGED batch_state
    /\ UNCHANGED <<templates_dir, config, tags, severity, setup_state, budgetVars,
                   events, command>>

\* The scanner's output ends: the loops end and handle_batch returns
EndOfStream ==
    /\ batch_state = "streaming"
    /\ batch_state' = "done"
    /\ UNCHANGED <<templates_dir, config, tags, severity, setup_state, budgetVars,
                   events, command, stream, results, findings>>

----------------------------------------------------------------------------
\* The module's life: setup, then batches

\* A directory with a GET template of every severity, all on one path
FullDir ==
    << Loaded([info |-> [severity |-> "critical"],
               requests |-> <<[method |-> "GET", path |-> <<"/a">>]>>]),
       Loaded([info |-> [severity |-> "high"],
               requests |-> <<[method |-> "GET", path |-> <<"/a">>]>>]),
       Loaded([info |-> [severity |-> "medium"],
               requests |-> <<[method |-> "GET", path |-> <<"/a">>]>>]),
       Loaded([info |-> [severity |-> "low"],
               requests |-> <<[method |-> "GET", path |-> <<"/a">>]>>]),
       Loaded([info |-> [severity |-> "info"],
               requests |-> <<[method |-> "GET", path |-> <<"/a">>]>>]),
       Loaded([info |-> [severity |-> "unknown"],
               requests |-> <<[method |-> "GET", path |-> <<"/a">>]>>]) >>

DefaultBudget == 1

\* The module under its default options (mode "severe")
Init ==
    /\ templates_dir = FullDir
    /\ config = Options("severe", "", "", DefaultBudget)
    /\ InitModule

Next == Setup \/ HandleBatch \/ NextLine \/ EndOfStream

Spec == Init /\ [][Next]_vars

\* Every mode, over configured and unconfigured tags and severity, with the
\* template directory filled or empty: setup, and the invocation of each batch.
InitConfig ==
    /\ templates_dir \in {FullDir, <<>>}
    /\ \E mode \in Modes \cup {"bogus"}, tagsOpt \in {"", "cve"}, severityOpt \in {"", "low"} :
          config = Options(mode, tagsOpt, severityOpt, DefaultBudget)
    /\ InitModule

NextConfig == Setup \/ HandleBatch

SpecConfig == InitConfig /\ [][NextConfig]_vars

----------------------------------------------------------------------------
\* The corpus as the claims speak of it

Built == nucleibudget # None
Collapsed == Built /\ nucleibudget.collapsable_templates # None

RequestsOf(yf) == GetOr(templates_dir[yf].doc, "requests", <<>>)

\* The places <<file, request, path>> of the paths of the requests without a
\* raw block, and the path at a place.
Occurrences ==
    {pos \in (1..Len(templates_dir)) \X (1..MaxPathsSize) \X (1..MaxPathsSize) :
        /\ templates_dir[pos[1]].ok
        /\ pos[2] \in DOMAIN RequestsOf(pos[1])
        /\ ~IsRaw(RequestsOf(pos[1])[pos[2]])
        /\ "path" \in DOMAIN RequestsOf(pos[1])[pos[2]]
        /\ pos[3] \in DOMAIN RequestsOf(pos[1])[pos[2]].path}
PathAt(pos) == RequestsOf(pos[1])[pos[2]].path[pos[3]]
DistinctPaths == {PathAt(pos) : pos \in Occurrences}
OccurrenceCount(p) == Cardinality({pos \in Occurrences : PathAt(pos) = p})

\* pos is scanned before pos2
ScannedBefore(pos, pos2) ==
    \/ pos[1] < pos2[1]
    \/ pos[1] = pos2[1] /\ pos[2] < pos2[2]
    \/ pos[1] = pos2[1] /\ pos[2] = pos2[2] /\ pos[3] < pos2[3]

FirstSeen(p) ==
    CHOOSE pos \in Occurrences :
        /\ PathAt(pos) = p
        /\ \A pos2 \in Occurrences : PathAt(pos2) = p => ~ScannedBefore(pos2, pos)

\* p ranks before q: more occurrences, or as many and met first
RanksBefore(p, q) ==
    \/ OccurrenceCount(p) > OccurrenceCount(q)
    \/ OccurrenceCount(p) = OccurrenceCount(q) /\ ScannedBefore(FirstSeen(p), FirstSeen(q))

MinOf(a, b) == IF a < b THEN a ELSE b

\* C4: find_budget_paths(N) returns the first min(N, D) of the D distinct paths
\* of the requests without a raw block, ranked by descending occurrence count
\* and, among equal counts, by first encounter in the scan: the result's length
\* is min(N, D), it lists paths of the corpus in ranking order (so without
\* duplicates), and every path left out ranks after every path listed.
C4_BudgetPathsRanked ==
    (Built /\ nucleibudget.budget_paths # None) =>
        LET bp == nucleibudget.budget_paths.v IN
        /\ Len(bp) = MinOf(config.budget, Cardinality(DistinctPaths))
        /\ \A i \in DOMAIN bp : bp[i] \in DistinctPaths
        /\ \A i, j \in DOMAIN bp : i < j => RanksBefore(bp[i], bp[j])
        /\ \A q \in DistinctPaths \ ToSet(bp) : \A i \in DOMAIN bp : RanksBefore(bp[i], q)

\* A result cut by the budget, in which a path met later went first for its
\* count, and a tie between a listed path and one left out was decided.
C4_Witness ==
    /\ Built /\ nucleibudget.budget_paths # None
    /\ LET bp == nucleibudget.budget_paths.v IN
       /\ Len(bp) = config.budget
       /\ Cardinality(DistinctPaths) > config.budget
       /\ \E i, j \in DOMAIN bp : i < j /\ ScannedBefore(FirstSeen(bp[j]), FirstSeen(bp[i]))
       /\ \E i \in DOMAIN bp : \E q \in DistinctPaths \ ToSet(bp) :
             OccurrenceCount(bp[i]) = OccurrenceCount(q)

\* What a request declares, as the claims read it
Declares(r, attr) == attr \in DOMAIN r /\ r[attr]
SimpleGet(r) ==
    /\ \A f \in RequestFlags : ~Declares(r, f)
    /\ "method" \in DOMAIN r => r.method = "GET"
PathsWithin(r, budget_paths) ==
    "path" \in DOMAIN r => ToSet(r.path) \subseteq ToSet(budget_paths)

\* C1: every template listed in collapsable_templates has all the paths of all
\* its requests without a raw block in budget_paths, and none of its requests
\* declares headers, a method other than GET, max-redirects, redirects or
\* cookie-reuse.
C1_CollapsedSound ==
    Collapsed =>
        \A n \in DOMAIN nucleibudget.collapsable_templates.v :
            LET yf == nucleibudget.collapsable_templates.v[n] IN
            \A i \in DOMAIN RequestsOf(yf) :
                /\ SimpleGet(RequestsOf(yf)[i])
                /\ ~IsRaw(RequestsOf(yf)[i]) =>
                       PathsWithin(RequestsOf(yf)[i], nucleibudget.budget_paths.v)

\* C2: no template with a raw request is listed in collapsable_templates.
C2_NoRawCollapsed ==
    Collapsed =>
        \A n \in DOMAIN nucleibudget.collapsable_templates.v :
            \A i \in DOMAIN RequestsOf(nucleibudget.collapsable_templates.v[n]) :
                ~IsRaw(RequestsOf(nucleibudget.collapsable_templates.v[n])[i])

\* C3: the values of severity_stats add up to the number of collapsed
\* templates, each counted once.
C3_StatsSumIsSetSize ==
    Collapsed =>
        SumValues(nucleibudget.severity_stats.v) =
            Cardinality(ToSet(nucleibudget.collapsable_templates.v))

\* A file that loads, has an info block, and whose requests without a raw block
\* all declare their paths: nothing in it makes the computation raise.
Healthy(yf) ==
    /\ templates_dir[yf].ok
    /\ "info" \in DOMAIN templates_dir[yf].doc
    /\ \A i \in DOMAIN RequestsOf(yf) :
          ~IsRaw(RequestsOf(yf)[i]) => "path" \in DOMAIN RequestsOf(yf)[i]

\* C9: a malformed file is not fatal: with the other files healthy, the
\* construction completes and the malformed file is not listed.
C9_MalformedNotFatal ==
    (/\ Built
     /\ \E yf \in DOMAIN templates_dir : ~templates_dir[yf].ok
     /\ \A yf \in DOMAIN templates_dir : templates_dir[yf].ok => Healthy(yf))
    => /\ nucleibudget.exc = NoExc
       /\ \A n \in DOMAIN nucleibudget.collapsable_templates.v :
             templates_dir[nucleibudget.collapsable_templates.v[n]].ok

\* A template with no raw request and no declared path
Pathless(yf) ==
    /\ templates_dir[yf].ok
    /\ "info" \in DOMAIN templates_dir[yf].doc
    /\ \A i \in DOMAIN RequestsOf(yf) :
          ~IsRaw(RequestsOf(yf)[i]) /\ "path" \notin DOMAIN RequestsOf(yf)[i]

\* C10: with nothing else in the corpus to make it raise, the computation
\* completes on a template with no raw request and no declared path, and lists
\* it exactly when its requests satisfy the other five predicates.
C10_PathlessVacuous ==
    (/\ Built
     /\ \A yf \in DOMAIN templates_dir : Healthy(yf) \/ Pathless(yf))
    => /\ nucleibudget.exc = NoExc
       /\ \A yf \in DOMAIN templates_dir :
             Pathless(yf) =>
                 (yf \in ToSet(nucleibudget.collapsable_templates.v)
                    <=> \A i \in DOMAIN RequestsOf(yf) : SimpleGet(RequestsOf(yf)[i]))

----------------------------------------------------------------------------
\* The scan invocation and the batch as the claims speak of them

HasFlag(cmd, flag) == \E i \in DOMAIN cmd : cmd[i] = flag
HasOption(cmd, flag, value) ==
    \E i \in DOMAIN cmd : i < Len(cmd) /\ cmd[i] = flag /\ cmd[i + 1] = value

Invoked == batch_state # "idle"

\* C5: in severe mode, whatever tags and severity are configured, setup leaves
\* the severity filter "critical,high" and the tag filter empty, and every
\* invocation carries -severity critical,high and no -tags.
C5_SevereForcesFilters ==
    (config.mode = "severe" /\ setup_state # "new") =>
        /\ severity = "critical,high"
        /\ tags = ""
        /\ Invoked => /\ HasOption(command, "-severity", "critical,high")
                      /\ ~HasFlag(command, "-tags")

\* An invocation built in severe mode with tags and a severity configured
C5_Witness ==
    /\ config.mode = "severe"
    /\ config.tags = "cve"
    /\ config.severity = "low"
    /\ Invoked

FirstMatch(evs, host) ==
    IF \E i \in DOMAIN evs : EventContains(evs[i], host)
    THEN CHOOSE i \in DOMAIN evs :
             /\ EventContains(evs[i], host)
             /\ \A j \in 1..(i - 1) : ~EventContains(evs[j], host)
    ELSE 0

\* C7: the findings are, in order, those of the results some event of the batch
\* contains, each tied to the first such event in batch order; a result no
\* event contains gives no finding, and the results after it are processed.
C7_FirstMatchCorrelated ==
    LET correlated == SelectSeq(results, LAMBDA r : FirstMatch(events, r.host) # 0) IN
    /\ Len(findings) = Len(correlated)
    /\ \A n \in DOMAIN findings :
          /\ findings[n].source = FirstMatch(events, correlated[n].host)
          /\ findings[n].host = events[findings[n].source].host
          /\ findings[n].url = correlated[n].host
          /\ findings[n].severity = correlated[n].severity
          /\ findings[n].template = correlated[n].template
          /\ findings[n].name = correlated[n].name

\* A result no event contains, then a result two events contain, tied to the
\* first of them
C7_Witness ==
    /\ Len(events) >= 2
    /\ Len(results) >= 2
    /\ FirstMatch(events, results[1].host) = 0
    /\ FirstMatch(events, results[2].host) = 1
    /\ EventContains(events[2], results[2].host)
    /\ Len(findings) = 1
    /\ findings[1].source = 1

\* A line that is a record with a template identifier, a name (matcher-name,
\* else the info name), a severity and a host, and what is yielded for it
HasText(j, key) == key \in DOMAIN j
InfoHasText(j, key) == HasText(j, "info") /\ j.info.object /\ HasText(j.info.j, key)
Complete(line) ==
    /\ line.json
    /\ line.object
    /\ HasText(line.j, "template-id")
    /\ HasText(line.j, "host")
    /\ HasText(line.j, "matcher-name") \/ InfoHasText(line.j, "name")
    /\ InfoHasText(line.j, "severity")
    /\ line.j.info.j.severity.string
ResultOf(line) ==
    [severity |-> upper(line.j.info.j.severity.s),
     template |-> line.j["template-id"],
     host |-> line.j.host,
     name |-> IF HasText(line.j, "matcher-name")
              THEN line.j["matcher-name"] ELSE line.j.info.j.name]

\* C8: the results are, in stream order, one for each complete record read, and
\* no line stops the processing of the lines after it.
C8_OneResultPerRecord ==
    LET complete == SelectSeq(stream, Complete) IN
    /\ batch_state # "raised"
    /\ results = [n \in DOMAIN complete |-> ResultOf(complete[n])]

====
